---------------------------- MODULE Spec2Model ----------------------------
(***************************************************************************)
(* The usePrePackagedRules hook of                                         *)
(* x-pack/plugins/security_solution/public/detections/containers/          *)
(* detection_engine/rules/use_pre_packaged_rules.tsx, as a state machine.  *)
(*                                                                         *)
(* One effect instance is modelled: its closure variables (isSubscribed,   *)
(* abortCtrl), the hook state it writes (prepackagedDataStatus, loading,   *)
(* loadingCreatePrePackagedRules), the toaster, the fetchPrePackagedRules  *)
(* calls in flight and one invocation of createElasticRules (a "session")  *)
(* with the locals of its polling loop.  The two API functions             *)
(* (getPrePackagedRulesStatus, createPrepackagedRules) are the             *)
(* environment: a call in flight may resolve or reject at any later step,  *)
(* also after the abort signal was raised (a late response).  The handles  *)
(* createPrePackagedRules and refetchPrePackagedRulesStatus are invoked by *)
(* the component that rendered them, that is, while the effect is live.    *)
(*                                                                         *)
(* The module also holds the window editor of the moving average           *)
(* operation, x-pack/plugins/lens/public/indexpattern_datasource/          *)
(* operations/definitions/calculations/moving_average.tsx: the column's    *)
(* window, the editor's text and its debounced callback, under the         *)
(* specification SpecMA.  Texts are sequences of characters, and           *)
(* parseFloat, parseInt and Number.prototype.toString are computed on      *)
(* them.                                                                   *)
(***************************************************************************)
EXTENDS Integers, FiniteSets, Sequences

VARIABLES
    props,                          \* l.57-63: the five hook arguments, fixed for the effect
    isSubscribed,                   \* l.94: closure flag of the effect
    aborted,                        \* l.95: abortCtrl.signal.aborted
    cleanups,                       \* l.221-224: runs of the effect's cleanup function
    prepackagedDataStatus,          \* l.64-87: hook state, handles and the seven counters
    loading,                        \* l.90: hook state
    loadingCreatePrePackagedRules,  \* l.89: hook state
    toasts,                         \* l.91: notifications dispatched, by title
    fetchInFlight,                  \* l.100: fetchPrePackagedRules calls awaiting the status API
    fetchStarted,                   \* l.97: fetchPrePackagedRules invocations so far
    pc,                             \* l.139-217: position of the createElasticRules invocation
    promise,                        \* l.140: state of the promise it returned
    resolveCalls,                   \* l.195, 203, 213: calls of the promise's resolve
    triggerCalls,                   \* l.150: createPrepackagedRules API calls issued
    iterationTryOfFetchingPrePackagedCount,  \* l.155
    timeoutId,                      \* l.156
    timerSeq,                       \* l.163: ids handed out by window.setTimeout
    pendingTimers,                  \* l.163: ids of the reFetch timers not yet fired
    statusInFlight,                 \* l.166: getPrePackagedRulesStatus calls of the loop in flight
    statusCalls,                    \* l.166: getPrePackagedRulesStatus calls issued by the loop
    prePackagedRuleStatusResponse,  \* l.166: the response the loop received last
    \* moving_average.tsx, MovingAverageParamEditor
    window,                         \* l.96-97, 154: the column's params.window
    inputValue,                     \* l.144: the editor's text, a string of characters
    debouncePending,                \* l.146-162: the debounced callback is scheduled
    updateLayerCalled,              \* l.150: the last run of the callback called updateLayer
    edits                           \* l.174: onChange events so far

vars == <<props, isSubscribed, aborted, cleanups, prepackagedDataStatus, loading,
          loadingCreatePrePackagedRules, toasts, fetchInFlight, fetchStarted,
          pc, promise, resolveCalls, triggerCalls,
          iterationTryOfFetchingPrePackagedCount, timeoutId, timerSeq, pendingTimers,
          statusInFlight, statusCalls, prePackagedRuleStatusResponse,
          window, inputValue, debouncePending, updateLayerCalled, edits>>

editorState == <<window, inputValue, debouncePending, updateLayerCalled, edits>>

hookState == <<prepackagedDataStatus, loading, loadingCreatePrePackagedRules, toasts>>

sessionState == <<pc, promise, resolveCalls, triggerCalls, iterationTryOfFetchingPrePackagedCount,
                  timeoutId, timerSeq, pendingTimers, statusInFlight, statusCalls,
                  prePackagedRuleStatusResponse>>

fetchState == <<fetchInFlight, fetchStarted>>

---------------------------------------------------------------------------
(* Bounds of the model *)

\* fetchPrePackagedRules invocations explored: the initial one and the refetches
MaxFetches == 3

\* runs of the cleanup function explored (React runs it once; a second run is a repeated cancel)
MaxCleanups == 2

\* timer callbacks explored for one session (a cancelled session has no cap of its own)
MaxPolls == 102

---------------------------------------------------------------------------
(* Values *)

\* JavaScript null, for a counter
Null == -1

\* JavaScript null, for a function handle
NullFn == "null"

\* the cap in `iterationTryOfFetchingPrePackagedCount > 100`
MaxAttempts == 100

PropNames == {"canUserCRUD", "hasIndexWrite", "isAuthenticated",
              "hasEncryptionKey", "isSignalIndexExists"}

\* boolean | null
PropValues == {"true", "false", "null"}

Response(custom, installed, notInstalled, notUpdated, tInstalled, tNotInstalled, tNotUpdated) ==
    [rules_custom_installed  |-> custom,
     rules_installed         |-> installed,
     rules_not_installed     |-> notInstalled,
     rules_not_updated       |-> notUpdated,
     timelines_installed     |-> tInstalled,
     timelines_not_installed |-> tNotInstalled,
     timelines_not_updated   |-> tNotUpdated]

\* what the status API may answer: everything installed, or one counter still open
StatusResponses ==
    { Response(1, 2, 0, 0, 2, 0, 0),
      Response(1, 1, 1, 0, 2, 0, 0),
      Response(1, 2, 0, 1, 2, 0, 0),
      Response(1, 2, 0, 0, 1, 1, 0),
      Response(1, 2, 0, 0, 2, 0, 1) }

\* the loop's response variable before the first response
NoResponse == Response(Null, Null, Null, Null, Null, Null, Null)

\* the initial hook state, and the one a failed fetch sets
NullStatus ==
    [createPrePackagedRules        |-> NullFn,
     refetchPrePackagedRulesStatus |-> NullFn,
     rulesCustomInstalled  |-> Null,
     rulesInstalled        |-> Null,
     rulesNotInstalled     |-> Null,
     rulesNotUpdated       |-> Null,
     timelinesInstalled    |-> Null,
     timelinesNotInstalled |-> Null,
     timelinesNotUpdated   |-> Null]

\* the object passed to setPrepackagedDataStatus for a response
StatusOf(r) ==
    [createPrePackagedRules        |-> "createElasticRules",
     refetchPrePackagedRulesStatus |-> "fetchPrePackagedRules",
     rulesCustomInstalled  |-> r.rules_custom_installed,
     rulesInstalled        |-> r.rules_installed,
     rulesNotInstalled     |-> r.rules_not_installed,
     rulesNotUpdated       |-> r.rules_not_updated,
     timelinesInstalled    |-> r.timelines_installed,
     timelinesNotInstalled |-> r.timelines_not_installed,
     timelinesNotUpdated   |-> r.timelines_not_updated]

NoToasts == [fetchFailure |-> 0, prepackagedSuccess |-> 0, prepackagedFailure |-> 0]

\* errorToToaster / displaySuccessToast
Toast(title) == [toasts EXCEPT ![title] = @ + 1]

\* resolve(v): settling a settled promise changes nothing
Resolve(p, v) == IF p = "pending" THEN v ELSE p

---------------------------------------------------------------------------
(* Pure parts of createElasticRules *)

\* mutant: canUserCRUD left out of the gate
Permitted_WithoutCRUD(p) == \A n \in PropNames \ {"canUserCRUD"} : p[n] = "true"

\* the gate `canUserCRUD && hasIndexWrite && isAuthenticated && hasEncryptionKey && isSignalIndexExists`
Permitted(p) == \A n \in PropNames : p[n] = "true"

\* the convergence test of the timer callback
AllInstalled(r) ==
    /\ r.rules_not_installed = 0
    /\ r.rules_not_updated = 0
    /\ r.timelines_not_installed = 0
    /\ r.timelines_not_updated = 0

\* mutant: the cap tested with `>=`
BudgetSpent_AtCap(n) == n >= MaxAttempts

\* `iterationTryOfFetchingPrePackagedCount > 100`
BudgetSpent(n) == n > MaxAttempts

\* mutant: the convergence test left out of the condition
ShouldFinish_OnlyWhenSpent(subscribed, r, n) == subscribed /\ BudgetSpent(n)

\* mutant: the isSubscribed test left out of the condition
ShouldFinish_Unguarded(subscribed, r, n) == AllInstalled(r) \/ BudgetSpent(n)

\* the condition of the timer callback's `if`
ShouldFinish(subscribed, r, n) == subscribed /\ (AllInstalled(r) \/ BudgetSpent(n))

\* stopTimeOut: window.clearTimeout(timeoutId) unless timeoutId is -1
StopTimeOut(timers, id) == IF id # -1 THEN timers \ {id} ELSE timers

---------------------------------------------------------------------------
(* The moving average window editor of                                     *)
(* x-pack/plugins/lens/public/indexpattern_datasource/operations/          *)
(* definitions/calculations/moving_average.tsx: strings and numbers        *)

\* characters of the text explored and strings of them, up to this length
MaxLen == 4

\* onChange events explored
MaxEdits == 2

\* `window: 5` of buildColumn
DefaultWindow == 5

\* the characters a text may hold: digits, the decimal point, the exponent mark, the sign
Chars == {"0", "1", "5", ".", "e", "-"}

Digits == {"0", "1", "5"}

\* `input: string`, e.target.value
Strings == UNION { [1..n -> Chars] : n \in 0..MaxLen }

DigitValue(c) == CASE c = "0" -> 0 [] c = "1" -> 1 [] c = "5" -> 5

RECURSIVE DigitRun(_, _)
\* the length of the longest run of digits of s that starts at position i
DigitRun(s, i) == IF i <= Len(s) /\ s[i] \in Digits THEN 1 + DigitRun(s, i + 1) ELSE 0

RECURSIVE Decimal(_, _, _)
\* the value of the n digits of s from position i on
Decimal(s, i, n) == IF n = 0 THEN 0 ELSE Decimal(s, i, n - 1) * 10 + DigitValue(s[i + n - 1])

RECURSIVE Pow10(_)
Pow10(n) == IF n = 0 THEN 1 ELSE 10 * Pow10(n - 1)

RECURSIVE TrailingZeros(_)
TrailingZeros(m) == IF m # 0 /\ m % 10 = 0 THEN 1 + TrailingZeros(m \div 10) ELSE 0

RECURSIVE NumDigits(_)
NumDigits(m) == IF m < 10 THEN 1 ELSE 1 + NumDigits(m \div 10)

\* A JavaScript number: NaN, an infinity, or (-1)^neg * m * 10^e with m not a
\* multiple of 10, so that equal numbers are equal records.
NaN == [kind |-> "NaN", neg |-> FALSE, m |-> 0, e |-> 0]

Infinity(neg) == [kind |-> "Infinity", neg |-> neg, m |-> 0, e |-> 0]

\* the number (-1)^neg * m * 10^e; beyond the range of a double it is an infinity
Number(neg, m, e) ==
    IF m = 0
    THEN [kind |-> "finite", neg |-> neg, m |-> 0, e |-> 0]
    ELSE LET z == TrailingZeros(m)
             mm == m \div Pow10(z)
         IN  IF NumDigits(mm) - 1 + e + z > 308
             THEN Infinity(neg)
             ELSE [kind |-> "finite", neg |-> neg, m |-> mm, e |-> e + z]

\* the exponent of v in scientific notation
Magnitude(v) == NumDigits(v.m) - 1 + v.e

\* parseFloat(input): the longest prefix that is a decimal literal (sign, digits,
\* fraction, exponent), NaN if there is none
parseFloat(input) ==
    LET neg     == Len(input) >= 1 /\ input[1] = "-"
        iInt    == IF neg THEN 2 ELSE 1
        nInt    == DigitRun(input, iInt)
        iDot    == iInt + nInt
        hasDot  == iDot <= Len(input) /\ input[iDot] = "."
        nFrac   == IF hasDot THEN DigitRun(input, iDot + 1) ELSE 0
        iExp    == IF hasDot THEN iDot + 1 + nFrac ELSE iDot
        hasExp  == iExp <= Len(input) /\ input[iExp] = "e"
        expNeg  == hasExp /\ iExp + 1 <= Len(input) /\ input[iExp + 1] = "-"
        iExpDig == IF expNeg THEN iExp + 2 ELSE iExp + 1
        nExp    == IF hasExp THEN DigitRun(input, iExpDig) ELSE 0
        expo    == IF expNeg THEN 0 - Decimal(input, iExpDig, nExp)
                             ELSE Decimal(input, iExpDig, nExp)
        mant    == Decimal(input, iInt, nInt) * Pow10(nFrac) + Decimal(input, iDot + 1, nFrac)
    IN  IF nInt + nFrac = 0 THEN NaN ELSE Number(neg, mant, expo - nFrac)

\* parseInt(inputValue, 10): the sign and the leading digits, NaN if there is no digit
parseInt(input) ==
    LET neg  == Len(input) >= 1 /\ input[1] = "-"
        iInt == IF neg THEN 2 ELSE 1
        nInt == DigitRun(input, iInt)
    IN  IF nInt = 0 THEN NaN ELSE Number(neg, Decimal(input, iInt, nInt), 0)

\* isNaN(val)
isNaN(val) == val.kind = "NaN"

\* `val < 1`
LessThanOne(val) ==
    CASE val.kind = "NaN"      -> FALSE
      [] val.kind = "Infinity" -> val.neg
      [] val.kind = "finite"   -> val.neg \/ val.m = 0 \/ Magnitude(val) < 0

\* `val.toString().includes('.')`: Number.prototype.toString writes the digits
\* with a decimal point where the number has a fraction, and d.ddde+N from 1e21
\* on and below 1e-6
toStringIncludesDot(val) ==
    /\ val.kind = "finite"
    /\ val.m # 0
    /\ IF Magnitude(val) >= 21 \/ Magnitude(val) < -6
       THEN NumDigits(val.m) > 1
       ELSE val.e < 0

\* isValidNumber: not empty, a number, not below 1, written without a decimal point
isValidNumber(input) ==
    IF input = <<>> THEN FALSE
    ELSE LET val == parseFloat(input)
         IN  IF isNaN(val) THEN FALSE
             ELSE IF LessThanOne(val) THEN FALSE
             ELSE IF toStringIncludesDot(val) THEN FALSE
             ELSE TRUE

\* String(currentColumn.params.window) of the default window
DefaultInputValue == <<"5">>

\* the column built by buildColumn and the editor's first render:
\* skipFirstRender, so no callback is scheduled
EditorInit ==
    /\ window = Number(FALSE, DefaultWindow, 0)
    /\ inputValue = DefaultInputValue
    /\ debouncePending = FALSE
    /\ updateLayerCalled = FALSE
    /\ edits = 0

---------------------------------------------------------------------------
(* The state after the effect has run: the initial fetch is in flight *)

Init ==
    /\ props \in [PropNames -> PropValues]
    /\ isSubscribed = TRUE
    /\ aborted = FALSE
    /\ cleanups = 0
    /\ prepackagedDataStatus = NullStatus
    /\ loading = TRUE
    /\ loadingCreatePrePackagedRules = FALSE
    /\ toasts = NoToasts
    /\ fetchInFlight = 1
    /\ fetchStarted = 1
    /\ pc = "idle"
    /\ promise = "none"
    /\ resolveCalls = 0
    /\ triggerCalls = 0
    /\ iterationTryOfFetchingPrePackagedCount = 0
    /\ timeoutId = -1
    /\ timerSeq = 0
    /\ pendingTimers = {}
    /\ statusInFlight = 0
    /\ statusCalls = 0
    /\ prePackagedRuleStatusResponse = NoResponse
    /\ EditorInit

---------------------------------------------------------------------------
(* fetchPrePackagedRules *)

\* refetchPrePackagedRulesStatus() called by the component that rendered the handle
Refetch ==
    /\ isSubscribed
    /\ prepackagedDataStatus.refetchPrePackagedRulesStatus # NullFn
    /\ fetchStarted < MaxFetches
    /\ loading' = TRUE
    /\ fetchInFlight' = fetchInFlight + 1
    /\ fetchStarted' = fetchStarted + 1
    /\ UNCHANGED <<editorState, props, isSubscribed, aborted, cleanups, prepackagedDataStatus,
                   loadingCreatePrePackagedRules, toasts, sessionState>>

\* the awaited getPrePackagedRulesStatus resolves with r
FetchResponse(r) ==
    /\ fetchInFlight > 0
    /\ fetchInFlight' = fetchInFlight - 1
    /\ IF isSubscribed
       THEN /\ prepackagedDataStatus' = StatusOf(r)
            /\ loading' = FALSE
       ELSE UNCHANGED <<prepackagedDataStatus, loading>>
    /\ UNCHANGED <<editorState, props, isSubscribed, aborted, cleanups, loadingCreatePrePackagedRules,
                   toasts, fetchStarted, sessionState>>

\* mutant: a catch block that clears the two handles and keeps the counters
FetchError_KeepsCounters ==
    /\ fetchInFlight > 0
    /\ fetchInFlight' = fetchInFlight - 1
    /\ IF isSubscribed
       THEN /\ prepackagedDataStatus' =
                   [prepackagedDataStatus EXCEPT !.createPrePackagedRules = NullFn,
                                                 !.refetchPrePackagedRulesStatus = NullFn]
            /\ toasts' = Toast("fetchFailure")
            /\ loading' = FALSE
       ELSE UNCHANGED <<prepackagedDataStatus, toasts, loading>>
    /\ UNCHANGED <<editorState, props, isSubscribed, aborted, cleanups, loadingCreatePrePackagedRules,
                   fetchStarted, sessionState>>

\* the awaited getPrePackagedRulesStatus rejects
FetchError ==
    /\ fetchInFlight > 0
    /\ fetchInFlight' = fetchInFlight - 1
    /\ IF isSubscribed
       THEN /\ prepackagedDataStatus' = NullStatus
            /\ toasts' = Toast("fetchFailure")
            /\ loading' = FALSE
       ELSE UNCHANGED <<prepackagedDataStatus, toasts, loading>>
    /\ UNCHANGED <<editorState, props, isSubscribed, aborted, cleanups, loadingCreatePrePackagedRules,
                   fetchStarted, sessionState>>

---------------------------------------------------------------------------
(* createElasticRules *)

\* reFetch(): window.setTimeout(callback, 300), whose id the caller stores in timeoutId
ReFetch ==
    /\ timerSeq' = timerSeq + 1
    /\ timeoutId' = timerSeq + 1
    /\ pendingTimers' = pendingTimers \cup {timerSeq + 1}

\* mutant: createPrepackagedRules not awaited, the loop starts with the trigger in flight
CreateElasticRules_NoAwait ==
    /\ isSubscribed
    /\ prepackagedDataStatus.createPrePackagedRules # NullFn
    /\ pc = "idle"
    /\ IF Permitted(props)
       THEN /\ loadingCreatePrePackagedRules' = TRUE
            /\ triggerCalls' = triggerCalls + 1
            /\ promise' = "pending"
            /\ pc' = "triggering"
            /\ ReFetch
            /\ UNCHANGED resolveCalls
       ELSE /\ promise' = Resolve("pending", "false")
            /\ resolveCalls' = resolveCalls + 1
            /\ pc' = "gateClosed"
            /\ UNCHANGED <<loadingCreatePrePackagedRules, triggerCalls, timeoutId,
                           timerSeq, pendingTimers>>
    /\ UNCHANGED <<editorState, props, isSubscribed, aborted, cleanups, prepackagedDataStatus, loading,
                   toasts, fetchState, iterationTryOfFetchingPrePackagedCount,
                   statusInFlight, statusCalls, prePackagedRuleStatusResponse>>

\* createPrePackagedRules() called by the component that rendered the handle
CreateElasticRules ==
    /\ isSubscribed
    /\ prepackagedDataStatus.createPrePackagedRules # NullFn
    /\ pc = "idle"
    /\ IF Permitted(props)
       THEN /\ loadingCreatePrePackagedRules' = TRUE
            /\ triggerCalls' = triggerCalls + 1
            /\ promise' = "pending"
            /\ pc' = "triggering"
            /\ UNCHANGED resolveCalls
       ELSE /\ promise' = Resolve("pending", "false")
            /\ resolveCalls' = resolveCalls + 1
            /\ pc' = "gateClosed"
            /\ UNCHANGED <<loadingCreatePrePackagedRules, triggerCalls>>
    /\ UNCHANGED <<editorState, props, isSubscribed, aborted, cleanups, prepackagedDataStatus, loading,
                   toasts, fetchState, iterationTryOfFetchingPrePackagedCount,
                   timeoutId, timerSeq, pendingTimers, statusInFlight, statusCalls,
                   prePackagedRuleStatusResponse>>

\* the awaited createPrepackagedRules resolves
TriggerResolved ==
    /\ pc = "triggering"
    /\ IF isSubscribed
       THEN /\ iterationTryOfFetchingPrePackagedCount' = 0
            /\ ReFetch
            /\ pc' = "polling"
       ELSE /\ pc' = "dropped"
            /\ UNCHANGED <<iterationTryOfFetchingPrePackagedCount, timeoutId,
                           timerSeq, pendingTimers>>
    /\ UNCHANGED <<editorState, props, isSubscribed, aborted, cleanups, hookState, fetchState, promise,
                   resolveCalls, triggerCalls, statusInFlight, statusCalls,
                   prePackagedRuleStatusResponse>>

\* mutant: a catch block that notifies but never calls resolve(false)
TriggerRejected_NoResolve ==
    /\ pc = "triggering"
    /\ IF isSubscribed
       THEN /\ loadingCreatePrePackagedRules' = FALSE
            /\ toasts' = Toast("prepackagedFailure")
            /\ pc' = "triggerFailed"
       ELSE /\ pc' = "dropped"
            /\ UNCHANGED <<loadingCreatePrePackagedRules, toasts>>
    /\ UNCHANGED <<editorState, props, isSubscribed, aborted, cleanups, prepackagedDataStatus, loading,
                   fetchState, promise, resolveCalls, triggerCalls,
                   iterationTryOfFetchingPrePackagedCount, timeoutId, timerSeq,
                   pendingTimers, statusInFlight, statusCalls,
                   prePackagedRuleStatusResponse>>

\* the awaited createPrepackagedRules rejects: the catch block
TriggerRejected ==
    /\ pc = "triggering"
    /\ IF isSubscribed
       THEN /\ loadingCreatePrePackagedRules' = FALSE
            /\ toasts' = Toast("prepackagedFailure")
            /\ promise' = Resolve(promise, "false")
            /\ resolveCalls' = resolveCalls + 1
            /\ pc' = "triggerFailed"
       ELSE /\ pc' = "dropped"
            /\ UNCHANGED <<loadingCreatePrePackagedRules, toasts, promise, resolveCalls>>
    /\ UNCHANGED <<editorState, props, isSubscribed, aborted, cleanups, prepackagedDataStatus, loading,
                   fetchState, triggerCalls, iterationTryOfFetchingPrePackagedCount,
                   timeoutId, timerSeq, pendingTimers, statusInFlight, statusCalls,
                   prePackagedRuleStatusResponse>>

\* mutant: window.setInterval in place of window.setTimeout (the timer stays armed)
TimerFires_Interval(id) ==
    /\ id \in pendingTimers
    /\ iterationTryOfFetchingPrePackagedCount < MaxPolls
    /\ iterationTryOfFetchingPrePackagedCount' = iterationTryOfFetchingPrePackagedCount + 1
    /\ statusCalls' = statusCalls + 1
    /\ statusInFlight' = statusInFlight + 1
    /\ UNCHANGED <<editorState, props, isSubscribed, aborted, cleanups, hookState, fetchState, pc, promise,
                   resolveCalls, triggerCalls, timeoutId, timerSeq, pendingTimers,
                   prePackagedRuleStatusResponse>>

\* a reFetch timer fires: the callback up to its await
TimerFires(id) ==
    /\ id \in pendingTimers
    /\ iterationTryOfFetchingPrePackagedCount < MaxPolls
    /\ pendingTimers' = pendingTimers \ {id}
    /\ iterationTryOfFetchingPrePackagedCount' = iterationTryOfFetchingPrePackagedCount + 1
    /\ statusCalls' = statusCalls + 1
    /\ statusInFlight' = statusInFlight + 1
    /\ UNCHANGED <<editorState, props, isSubscribed, aborted, cleanups, hookState, fetchState, pc, promise,
                   resolveCalls, triggerCalls, timeoutId, timerSeq, prePackagedRuleStatusResponse>>

\* mutant: a spent budget without convergence reported as a failure
StatusResolved_ExhaustionFails(r) ==
    /\ statusInFlight > 0
    /\ statusInFlight' = statusInFlight - 1
    /\ prePackagedRuleStatusResponse' = r
    /\ IF ShouldFinish(isSubscribed, r, iterationTryOfFetchingPrePackagedCount)
       THEN /\ loadingCreatePrePackagedRules' = FALSE
            /\ IF AllInstalled(r)
               THEN /\ prepackagedDataStatus' = StatusOf(r)
                    /\ toasts' = Toast("prepackagedSuccess")
                    /\ promise' = Resolve(promise, "true")
               ELSE /\ toasts' = Toast("prepackagedFailure")
                    /\ promise' = Resolve(promise, "false")
                    /\ UNCHANGED prepackagedDataStatus
            /\ pendingTimers' = StopTimeOut(pendingTimers, timeoutId)
            /\ resolveCalls' = resolveCalls + 1
            /\ pc' = "resolved"
            /\ UNCHANGED <<timeoutId, timerSeq>>
       ELSE /\ ReFetch
            /\ UNCHANGED <<loadingCreatePrePackagedRules, prepackagedDataStatus,
                           toasts, promise, resolveCalls, pc>>
    /\ UNCHANGED <<editorState, props, isSubscribed, aborted, cleanups, loading, fetchState,
                   triggerCalls, iterationTryOfFetchingPrePackagedCount, statusCalls>>

\* mutant: the finishing branch falls through to reFetch()
StatusResolved_KeepsPolling(r) ==
    /\ statusInFlight > 0
    /\ statusInFlight' = statusInFlight - 1
    /\ prePackagedRuleStatusResponse' = r
    /\ ReFetch
    /\ IF ShouldFinish(isSubscribed, r, iterationTryOfFetchingPrePackagedCount)
       THEN /\ loadingCreatePrePackagedRules' = FALSE
            /\ prepackagedDataStatus' = StatusOf(r)
            /\ toasts' = Toast("prepackagedSuccess")
            /\ promise' = Resolve(promise, "true")
            /\ resolveCalls' = resolveCalls + 1
            /\ pc' = "resolved"
       ELSE UNCHANGED <<loadingCreatePrePackagedRules, prepackagedDataStatus,
                        toasts, promise, resolveCalls, pc>>
    /\ UNCHANGED <<editorState, props, isSubscribed, aborted, cleanups, loading, fetchState,
                   triggerCalls, iterationTryOfFetchingPrePackagedCount, statusCalls>>

\* the callback's getPrePackagedRulesStatus resolves with r: the rest of the callback
StatusResolved(r) ==
    /\ statusInFlight > 0
    /\ statusInFlight' = statusInFlight - 1
    /\ prePackagedRuleStatusResponse' = r
    /\ IF ShouldFinish(isSubscribed, r, iterationTryOfFetchingPrePackagedCount)
       THEN /\ loadingCreatePrePackagedRules' = FALSE
            /\ prepackagedDataStatus' = StatusOf(r)
            /\ toasts' = Toast("prepackagedSuccess")
            /\ pendingTimers' = StopTimeOut(pendingTimers, timeoutId)
            /\ promise' = Resolve(promise, "true")
            /\ resolveCalls' = resolveCalls + 1
            /\ pc' = "resolved"
            /\ UNCHANGED <<timeoutId, timerSeq>>
       ELSE /\ ReFetch
            /\ UNCHANGED <<loadingCreatePrePackagedRules, prepackagedDataStatus,
                           toasts, promise, resolveCalls, pc>>
    /\ UNCHANGED <<editorState, props, isSubscribed, aborted, cleanups, loading, fetchState, triggerCalls,
                   iterationTryOfFetchingPrePackagedCount, statusCalls>>

\* the callback's getPrePackagedRulesStatus rejects: the async callback rejects, and
\* nothing handles the rejection (the try of createElasticRules has long returned)
StatusRejected ==
    /\ statusInFlight > 0
    /\ statusInFlight' = statusInFlight - 1
    /\ pc' = IF pc = "polling" THEN "queryFailed" ELSE pc
    /\ UNCHANGED <<editorState, props, isSubscribed, aborted, cleanups, hookState, fetchState, promise,
                   resolveCalls, triggerCalls, iterationTryOfFetchingPrePackagedCount,
                   timeoutId,
                   timerSeq, pendingTimers, statusCalls, prePackagedRuleStatusResponse>>

---------------------------------------------------------------------------
(* the cleanup of the effect *)

\* mutant: a cleanup that also clears the two loading flags
Cleanup_ResetsLoading ==
    /\ cleanups < MaxCleanups
    /\ cleanups' = cleanups + 1
    /\ isSubscribed' = FALSE
    /\ aborted' = TRUE
    /\ loading' = FALSE
    /\ loadingCreatePrePackagedRules' = FALSE
    /\ UNCHANGED <<editorState, props, prepackagedDataStatus, toasts, fetchState, sessionState>>

\* mutant: a cleanup that flips the flag instead of clearing it
Cleanup_Toggle ==
    /\ cleanups < MaxCleanups
    /\ cleanups' = cleanups + 1
    /\ isSubscribed' = ~isSubscribed
    /\ aborted' = TRUE
    /\ UNCHANGED <<editorState, props, hookState, fetchState, sessionState>>

Cleanup ==
    /\ cleanups < MaxCleanups
    /\ cleanups' = cleanups + 1
    /\ isSubscribed' = FALSE
    /\ aborted' = TRUE
    /\ UNCHANGED <<editorState, props, hookState, fetchState, sessionState>>

---------------------------------------------------------------------------

Next ==
    \/ Refetch
    \/ \E r \in StatusResponses : FetchResponse(r)
    \/ FetchError
    \/ CreateElasticRules
    \/ TriggerResolved
    \/ TriggerRejected
    \/ \E id \in pendingTimers : TimerFires(id)
    \/ \E r \in StatusResponses : StatusResolved(r)
    \/ StatusRejected
    \/ Cleanup

Spec == Init /\ [][Next]_vars

---------------------------------------------------------------------------
(* MovingAverageParamEditor.  The editor belongs to another plugin than    *)
(* the hook: each of the two specifications leaves the other's state as    *)
(* it was initially.                                                       *)

effectState == <<props, isSubscribed, aborted, cleanups, hookState, fetchState, sessionState>>

\* onChange: setInputValue(e.target.value); the new text (re)schedules the
\* debounced callback
SetInputValue(v) ==
    /\ edits < MaxEdits
    /\ v # inputValue
    /\ inputValue' = v
    /\ debouncePending' = TRUE
    /\ updateLayerCalled' = FALSE
    /\ edits' = edits + 1
    /\ UNCHANGED <<window, effectState>>

\* the debounced callback, 256 ms after the last change of inputValue
DebounceFires ==
    /\ debouncePending
    /\ debouncePending' = FALSE
    /\ IF ~isValidNumber(inputValue)
       THEN /\ updateLayerCalled' = FALSE
            /\ UNCHANGED window
       ELSE /\ window' = parseInt(inputValue)
            /\ updateLayerCalled' = TRUE
    /\ UNCHANGED <<inputValue, edits, effectState>>

\* the editor is rendered for a column built by buildColumn; the hook is idle
InitMA ==
    /\ Init
    /\ \A n \in PropNames : props[n] = "true"

NextMA ==
    \/ \E v \in Strings : SetInputValue(v)
    \/ DebounceFires

SpecMA == InitMA /\ [][NextMA]_vars

---------------------------------------------------------------------------
(* Properties *)

\* the convergence predicate as the specification words it: all four
\* not-installed / not-updated counters of a status response equal 0
Converged(r) ==
    /\ r.rules_not_installed = 0
    /\ r.rules_not_updated = 0
    /\ r.timelines_not_installed = 0
    /\ r.timelines_not_updated = 0

\* the attempt budget the specification names
SpecMaxAttempts == MaxAttempts

\* the invocation has nothing left to run: no await outstanding, no timer, no query
Quiescent ==
    /\ pc \notin {"idle", "triggering"}
    /\ pendingTimers = {}
    /\ statusInFlight = 0

Settled == promise \in {"true", "false"}

\* C1: once the session is cancelled, its reFetch loop issues no further
\* getPrePackagedRulesStatus call.
C1_NoStatusQueryAfterCancel ==
    [][~isSubscribed => statusCalls' = statusCalls]_vars

\* C2: a status query that fails during polling ends the session as Failed: the
\* promise is settled, the failure notification is raised and
\* loadingCreatePrePackagedRules is false again.
C2_QueryFailureReported ==
    (isSubscribed /\ pc = "queryFailed") =>
        /\ Settled
        /\ toasts.prepackagedFailure >= 1
        /\ ~loadingCreatePrePackagedRules

\* C3 (as claimed): a session that ends without a converged response has issued
\* exactly maxAttempts = 100 status queries.
C3_ExhaustedAfterMaxAttempts ==
    (pc = "resolved" /\ ~Converged(prePackagedRuleStatusResponse)) =>
        statusCalls = SpecMaxAttempts

\* C3 (amended): a session that ends without a converged response has issued exactly
\* 101 status queries (the cap is tested with `> 100` after the increment), and an
\* uncancelled session never schedules a 102nd.
C3_ExhaustedAfterMaxAttemptsPlusOne ==
    /\ (pc = "resolved" /\ ~Converged(prePackagedRuleStatusResponse)) =>
           statusCalls = SpecMaxAttempts + 1
    /\ (isSubscribed /\ pc = "polling" /\ pendingTimers # {}) =>
           statusCalls <= SpecMaxAttempts

C3_Witness ==
    /\ isSubscribed
    /\ pc = "resolved"
    /\ ~Converged(prePackagedRuleStatusResponse)
    /\ statusCalls = SpecMaxAttempts + 1
    /\ promise = "true"

\* C4: an uncancelled session keeps polling only while no response converged; the
\* step that receives the first converged response, that of attempt k, ends the
\* session with the promise resolved true, k status queries issued and that response
\* published; an ended session issues no further query.
C4_ConvergedOnAttemptK ==
    /\ []((isSubscribed /\ pc = "polling") => ~Converged(prePackagedRuleStatusResponse))
    /\ [][(/\ isSubscribed
           /\ statusInFlight' < statusInFlight
           /\ pc' # "queryFailed"
           /\ Converged(prePackagedRuleStatusResponse'))
          => (/\ pc' = "resolved"
              /\ promise' = "true"
              /\ prepackagedDataStatus' = StatusOf(prePackagedRuleStatusResponse')
              /\ statusCalls' = iterationTryOfFetchingPrePackagedCount
              /\ statusCalls' = statusCalls
              /\ pendingTimers' = {}
              /\ statusInFlight' = 0)]_vars
    /\ [][pc = "resolved" => (pc' = "resolved" /\ statusCalls' = statusCalls)]_vars

C4_Witness ==
    /\ isSubscribed
    /\ pc = "resolved"
    /\ Converged(prePackagedRuleStatusResponse)
    /\ statusCalls = 3
    /\ prepackagedDataStatus = StatusOf(prePackagedRuleStatusResponse)

\* C5: a session that has nothing left to run has settled its promise.
C5_EverySessionSettles == Quiescent => Settled

\* C6: after a failed trigger the polling loop was never started (no timer, no
\* status query), the promise is resolved false and exactly one failure
\* notification was raised; the trigger was called once.
C6_TriggerFailure ==
    /\ pc \in {"triggerFailed", "dropped"} => (statusCalls = 0 /\ timerSeq = 0)
    /\ pc = "triggerFailed" =>
           /\ promise = "false"
           /\ toasts.prepackagedFailure = 1
           /\ toasts.prepackagedSuccess = 0
           /\ triggerCalls = 1

C6_Witness ==
    /\ pc = "triggerFailed"
    /\ promise = "false"
    /\ toasts.prepackagedFailure = 1
    /\ statusCalls = 0

\* C7: per session at most one of {a pending timer, a status query in flight}
\* exists at any instant.
C7_OneTimerOrQuery == Cardinality(pendingTimers) + statusInFlight <= 1

C7_Witness ==
    /\ statusInFlight = 1
    /\ pendingTimers = {}
    /\ statusCalls = 2

\* C8: a session never issues more than maxAttempts = 100 status queries.
C8_CallsWithinBudget == statusCalls <= SpecMaxAttempts

\* C9: once isSubscribed is false, no step changes prepackagedDataStatus, loading,
\* loadingCreatePrePackagedRules or the toaster.
C9_NoMutationAfterCancel ==
    [][~isSubscribed => UNCHANGED hookState]_vars

\* a converged polling response and the fetch response both arrived after the cancel
C9_Witness ==
    /\ ~isSubscribed
    /\ pc = "polling"
    /\ Converged(prePackagedRuleStatusResponse)
    /\ loading
    /\ fetchInFlight = 0
    /\ loadingCreatePrePackagedRules

\* C10: a session that is cancelled, resolved or failed on a query has no reFetch
\* timer pending.
C10_TerminalHasNoTimer ==
    (~isSubscribed \/ pc \in {"resolved", "queryFailed"}) => pendingTimers = {}

\* a step in which the polling loop receives a response (not a rejection)
StatusArrives ==
    /\ statusInFlight' < statusInFlight
    /\ pc' # "queryFailed"

\* C11: when the budget runs out without convergence on a mounted hook, the step
\* publishes that last response, clears loadingCreatePrePackagedRules, resolves the
\* promise true, raises the success notification and no failure notification.
C11_ExhaustionIsSoftSuccess ==
    /\ [][(/\ isSubscribed
           /\ StatusArrives
           /\ ~Converged(prePackagedRuleStatusResponse')
           /\ iterationTryOfFetchingPrePackagedCount > SpecMaxAttempts)
          => (/\ prepackagedDataStatus' = StatusOf(prePackagedRuleStatusResponse')
              /\ ~loadingCreatePrePackagedRules'
              /\ promise' = "true"
              /\ toasts'.prepackagedFailure = toasts.prepackagedFailure
              /\ toasts'.prepackagedSuccess = toasts.prepackagedSuccess + 1)]_vars
    /\ []((pc = "resolved" /\ ~Converged(prePackagedRuleStatusResponse)) =>
              (promise = "true" /\ toasts.prepackagedFailure = 0))

C11_Witness ==
    /\ pc = "resolved"
    /\ ~Converged(prePackagedRuleStatusResponse)
    /\ prepackagedDataStatus = StatusOf(prePackagedRuleStatusResponse)
    /\ ~loadingCreatePrePackagedRules
    /\ promise = "true"
    /\ toasts.prepackagedSuccess = 1
    /\ toasts.prepackagedFailure = 0

\* C12: a session that is resolved, failed or cancelled keeps its outcome: its
\* position and its promise never change again, a cancelled hook stays cancelled
\* with its state untouched, and a cancel changes neither the promise, the
\* published snapshot nor the loading flags.
C12_TerminalStatesAreFinal ==
    /\ [][(pc \in {"resolved", "triggerFailed", "queryFailed", "gateClosed", "dropped"})
          => (pc' = pc /\ promise' = promise)]_vars
    /\ [][Settled => promise' = promise]_vars
    /\ [][~isSubscribed => (~isSubscribed' /\ promise' = promise)]_vars
    /\ [][cleanups' # cleanups => (promise' = promise /\ pc' = pc /\ UNCHANGED hookState)]_vars

C12_Witness ==
    /\ ~isSubscribed
    /\ pc = "resolved"
    /\ promise = "true"
    /\ loading
    /\ prepackagedDataStatus = StatusOf(prePackagedRuleStatusResponse)

\* C13: the trigger API is called at most once, and a timer or a status query of
\* the session exists only after the trigger call has resolved.
C13_TriggerOnceBeforePolling ==
    /\ triggerCalls <= 1
    /\ (statusCalls > 0 \/ timerSeq > 0 \/ pendingTimers # {} \/ statusInFlight > 0) =>
           (triggerCalls = 1 /\ pc \in {"polling", "resolved", "queryFailed"})
    /\ pc \in {"idle", "gateClosed"} => triggerCalls = 0

C13_Witness ==
    /\ triggerCalls = 1
    /\ statusCalls = 3
    /\ pc = "polling"

\* C14: a second run of the cleanup changes nothing: after the first run
\* isSubscribed is false and the signal aborted, and every further run leaves the
\* hook, the fetches and the session as they were.
C14_CancelIdempotent ==
    /\ [](cleanups >= 1 => (~isSubscribed /\ aborted))
    /\ [][(cleanups >= 1 /\ cleanups' # cleanups)
          => UNCHANGED <<props, isSubscribed, aborted, hookState, fetchState,
                         sessionState>>]_vars

C14_Witness ==
    /\ cleanups = 2
    /\ ~isSubscribed
    /\ pc = "polling"
    /\ pendingTimers # {}

\* C15: while the session is Triggering or Polling, no step other than the
\* session's own writes prepackagedDataStatus.
C15_SnapshotWrittenBySessionOnly ==
    [][(/\ isSubscribed
        /\ pc \in {"triggering", "polling"}
        /\ pc' \in {"triggering", "polling"})
       => UNCHANGED prepackagedDataStatus]_vars

\* C16: on a mounted hook loadingCreatePrePackagedRules is true only while the
\* session is Triggering or Polling.
C16_LoadingCreateOnlyWhileActive ==
    (isSubscribed /\ loadingCreatePrePackagedRules) => pc \in {"triggering", "polling"}

\* some hook argument is false or null
SomePropFalsy == \E n \in PropNames : props[n] \in {"false", "null"}

\* C17: with a falsy hook argument, the invocation resolves false at once, calls
\* neither the trigger nor a status query, arms no timer and leaves
\* loadingCreatePrePackagedRules, the snapshot, loading and the toaster unchanged.
C17_PermissionGate ==
    /\ [][(SomePropFalsy /\ pc = "idle" /\ pc' # "idle")
          => (/\ promise' = "false"
              /\ resolveCalls' = 1
              /\ UNCHANGED <<hookState, triggerCalls, statusCalls, timerSeq,
                             pendingTimers, statusInFlight>>)]_vars
    /\ [](SomePropFalsy =>
              /\ triggerCalls = 0
              /\ statusCalls = 0
              /\ timerSeq = 0
              /\ ~loadingCreatePrePackagedRules
              /\ toasts.prepackagedSuccess = 0
              /\ toasts.prepackagedFailure = 0)

C17_Witness ==
    /\ props["canUserCRUD"] = "null"
    /\ \A n \in PropNames \ {"canUserCRUD"} : props[n] = "true"
    /\ pc = "gateClosed"
    /\ promise = "false"

\* the seven counters and two handles of the snapshot come from the response r
SnapshotFrom(r) ==
    /\ prepackagedDataStatus.createPrePackagedRules # NullFn
    /\ prepackagedDataStatus.refetchPrePackagedRulesStatus # NullFn
    /\ prepackagedDataStatus.rulesCustomInstalled = r.rules_custom_installed
    /\ prepackagedDataStatus.rulesInstalled = r.rules_installed
    /\ prepackagedDataStatus.rulesNotInstalled = r.rules_not_installed
    /\ prepackagedDataStatus.rulesNotUpdated = r.rules_not_updated
    /\ prepackagedDataStatus.timelinesInstalled = r.timelines_installed
    /\ prepackagedDataStatus.timelinesNotInstalled = r.timelines_not_installed
    /\ prepackagedDataStatus.timelinesNotUpdated = r.timelines_not_updated

SnapshotAllNull ==
    /\ prepackagedDataStatus.createPrePackagedRules = NullFn
    /\ prepackagedDataStatus.refetchPrePackagedRulesStatus = NullFn
    /\ prepackagedDataStatus.rulesCustomInstalled = Null
    /\ prepackagedDataStatus.rulesInstalled = Null
    /\ prepackagedDataStatus.rulesNotInstalled = Null
    /\ prepackagedDataStatus.rulesNotUpdated = Null
    /\ prepackagedDataStatus.timelinesInstalled = Null
    /\ prepackagedDataStatus.timelinesNotInstalled = Null
    /\ prepackagedDataStatus.timelinesNotUpdated = Null

\* C18: the snapshot is either all null (handles included), and then no fetch has
\* succeeded yet or a fetch has failed, or it is taken whole from one status response.
C18_SnapshotAtomic ==
    /\ SnapshotAllNull \/ \E r \in StatusResponses : SnapshotFrom(r)
    /\ SnapshotAllNull => (fetchStarted = 1 \/ toasts.fetchFailure >= 1)

\* a refetch failed after an earlier fetch had published a response
C18_Witness ==
    /\ SnapshotAllNull
    /\ fetchStarted >= 2
    /\ toasts.fetchFailure = 1
    /\ isSubscribed

\* C19: on a mounted hook loading is true while a fetch query is outstanding; the
\* step completing a fetch clears loading; a failed fetch resets the snapshot to
\* null and raises exactly one fetch-failure notification; a successful fetch
\* raises none.
C19_FetchLoading ==
    /\ []((isSubscribed /\ fetchInFlight > 0) => loading)
    /\ [][(isSubscribed /\ fetchInFlight' < fetchInFlight)
          => (/\ ~loading'
              /\ \/ (SnapshotAllNull' /\ toasts'.fetchFailure = toasts.fetchFailure + 1)
                 \/ (~SnapshotAllNull' /\ toasts' = toasts))]_vars

\* C20: resolve is called at most once, and at most one of the success and the
\* failure notification is raised, once.
C20_OutcomeReportedOnce ==
    /\ resolveCalls <= 1
    /\ toasts.prepackagedSuccess + toasts.prepackagedFailure <= 1

C20_Witness ==
    /\ resolveCalls = 1
    /\ toasts.prepackagedSuccess = 1
    /\ toasts.prepackagedFailure = 0
    /\ pc = "resolved"
    /\ statusCalls >= 2


---------------------------------------------------------------------------
(* The moving average window *)

\* an integer that is at least 1
IntegerAtLeastOne(val) == val.kind = "finite" /\ val.e >= 0 /\ ~LessThanOne(val)

\* a step in which the debounced callback ran
CallbackRuns == debouncePending /\ ~debouncePending'

\* C21: from the default window of 5 on, the column's window is always an integer
\* that is at least 1; a run of the debounced callback on a text that
\* isValidNumber rejects does not call updateLayer and leaves the window as it
\* was; a run on an accepted text writes the numeric value of the text.
C21_WindowIsValidatedInput ==
    /\ [](IntegerAtLeastOne(window))
    /\ [][(CallbackRuns /\ ~isValidNumber(inputValue))
          => (~updateLayerCalled' /\ window' = window)]_vars
    /\ [][(CallbackRuns /\ isValidNumber(inputValue))
          => (updateLayerCalled' /\ window' = parseFloat(inputValue))]_vars

=============================================================================
